---- MODULE Spec2Model ----
(***************************************************************************)
(* Model of the opteryx blob reader (BlobReaderNode): the partition        *)
(* scanner, the read+decode work function and the execute() generator,     *)
(* together with the QueryStatistics counters they update.                 *)
(*                                                                         *)
(* Paths are sequences of atoms: "/" and "." are atoms of their own and    *)
(* every other atom is a word without "/" or ".".  No word is a prefix of  *)
(* another, so comparing two paths atom by atom with AtomRank gives the    *)
(* order Python gives the strings.                                         *)
(***************************************************************************)
EXTENDS Integers, Sequences, FiniteSets, TLC

\* ------------------------------------------------------------------ bounds
MaxParts == 2
MaxBlobs == 2

\* ----------------------------------------------------------------- helpers
None == "None"

Range(s) == {s[i] : i \in DOMAIN s}

Last(s) == s[Len(s)]

SeqsUpTo(S, n) == UNION {[1..k -> S] : k \in 0..n}

IsInjective(s) == \A i, j \in DOMAIN s : s[i] = s[j] => i = j

\* ------------------------------------------------- program constants, types
ExtentionType == [DATA |-> "DATA", CONTROL |-> "CONTROL"]

MAX_SIZE_SINGLE_CACHE_ITEM == 2

KNOWN_EXTENSIONS ==
    [complete |-> <<"do_nothing", ExtentionType.CONTROL>>,
     ignore   |-> <<"do_nothing", ExtentionType.CONTROL>>,
     arrow    |-> <<"arrow_decoder", ExtentionType.DATA>>,
     jsonl    |-> <<"jsonl_decoder", ExtentionType.DATA>>,
     orc      |-> <<"orc_decoder", ExtentionType.DATA>>,
     parquet  |-> <<"parquet_decoder", ExtentionType.DATA>>,
     zstd     |-> <<"zstd_decoder", ExtentionType.DATA>>]

QueryStatistics ==
    [count_blobs_found |-> 0,
     count_data_blobs_read |-> 0,
     bytes_read_data |-> 0,
     bytes_processed_data |-> 0,
     count_blobs_ignored_frames |-> 0,
     rows_read |-> 0,
     columns_read |-> 0,
     read_errors |-> 0,
     count_unknown_blob_type_found |-> 0,
     count_control_blobs_found |-> 0,
     partitions_found |-> 0,
     partitions_scanned |-> 0,
     partitions_read |-> 0,
     cache_hits |-> 0,
     cache_misses |-> 0,
     cache_oversize |-> 0,
     cache_errors |-> 0]

\* ------------------------------------------------------ the stored dataset
Dataset == <<"ds", "/">>

P1 == Dataset \o <<"p1", "/">>
P2 == Dataset \o <<"p2", "/">>

PartitionPaths == {P1, P2}

A1 == P1 \o <<"as_at_1", "/", "b1", ".", "parquet">>
A2 == P1 \o <<"as_at_2", "/", "b2", ".", "jsonl">>
A3 == P1 \o <<"as_at_2", "/", "b1", ".", "complete">>
A4 == P1 \o <<"as_at_2", "/", "b2", ".", "parquet">>
B1 == P2 \o <<"b1", ".", "parquet">>
B2 == P2 \o <<"b2", ".", "txt">>
B3 == P2 \o <<"sub", "/">>
B4 == P2 \o <<"b1", ".", "PARQUET">>
B5 == P2 \o <<"b2">>
B6 == P2 \o <<"b1", ".", "parquet", ".", "ignore">>
B7 == P2 \o <<"sub", ".", "parquet", "/", "b2">>

BlobUniverse(partition) == IF partition = P1 THEN {A1, A2, A3} ELSE {B1, B2, B3}

Field(name, type) == [name |-> name, type |-> type]

\* What a DATA blob holds: its size in bytes (relative to the cache limit),
\* the schema of the table it decodes to and its number of rows.
BlobContent(path) ==
    CASE path = A1 -> [nbytes |-> MAX_SIZE_SINGLE_CACHE_ITEM - 1, num_rows |-> 1,
                       columns |-> <<Field("c1", "int64"), Field("c2", "date32[day]")>>]
      [] path = A2 -> [nbytes |-> MAX_SIZE_SINGLE_CACHE_ITEM, num_rows |-> 2,
                       columns |-> <<Field("c1", "int64"), Field("c3", "list<item: null>")>>]
      [] path = A4 -> [nbytes |-> MAX_SIZE_SINGLE_CACHE_ITEM - 1, num_rows |-> 1,
                       columns |-> <<Field("c1", "int64"), Field("c2", "date64[ms]")>>]
      [] path = B1 -> [nbytes |-> MAX_SIZE_SINGLE_CACHE_ITEM + 1, num_rows |-> 1,
                       columns |-> <<Field("c2", "timestamp[ms]"), Field("c3", "string"),
                                     Field("c1", "int64")>>]
      [] OTHER -> [nbytes |-> 1, num_rows |-> 0, columns |-> <<>>]

\* Python's order on the characters the atoms start with: '.' < '/' < 'A'..'Z'
\* < 'a'..'z', and the words in their string order.
AtomRank(atom) ==
    CASE atom = "." -> 1
      [] atom = "/" -> 2
      [] atom = "PARQUET" -> 3
      [] atom = "as_at_1" -> 4
      [] atom = "as_at_2" -> 5
      [] atom = "b1" -> 6
      [] atom = "b2" -> 7
      [] atom = "complete" -> 8
      [] atom = "ds" -> 9
      [] atom = "ignore" -> 10
      [] atom = "jsonl" -> 11
      [] atom = "p1" -> 12
      [] atom = "p2" -> 13
      [] atom = "parquet" -> 14
      [] atom = "sub" -> 15
      [] atom = "txt" -> 16

\* str.__lt__ on two paths
RECURSIVE PathLess(_, _)
PathLess(a, b) ==
    IF a = <<>> THEN b # <<>>
    ELSE IF b = <<>> THEN FALSE
    ELSE IF Head(a) = Head(b) THEN PathLess(Tail(a), Tail(b))
    ELSE AtomRank(Head(a)) < AtomRank(Head(b))

\* tuple.__lt__ on two (path, parser) pairs: the first differing element decides
TupleLess(x, y) ==
    IF x[1] # y[1] THEN PathLess(x[1], y[1])
    ELSE IF x[2] # y[2] THEN PathLess(<<x[2]>>, <<y[2]>>)
    ELSE FALSE

RECURSIVE InsertSorted(_, _)
InsertSorted(x, s) ==
    IF s = <<>> THEN <<x>>
    ELSE IF TupleLess(x, Head(s)) THEN <<x>> \o s
    ELSE <<Head(s)>> \o InsertSorted(x, Tail(s))

\* sorted(list): stable, ascending
RECURSIVE SortedFrom(_, _)
SortedFrom(done, rest) ==
    IF rest = <<>> THEN done ELSE SortedFrom(InsertSorted(Head(rest), done), Tail(rest))

sorted_AsListed(list) == list

sorted(list) == SortedFrom(<<>>, list)

EndsWithSlash_Never(blob) == FALSE

\* blob.endswith("/")
EndsWithSlash(blob) == blob # <<>> /\ Last(blob) = "/"

\* blob_name.split(".")[-1]: the atoms after the last "."
RECURSIVE Extension(_)
Extension(blob_name) ==
    IF blob_name = <<>> THEN <<>>
    ELSE IF \E i \in DOMAIN Tail(blob_name) : Tail(blob_name)[i] = "."
         THEN Extension(Tail(blob_name))
    ELSE IF Head(blob_name) = "." THEN Tail(blob_name)
    ELSE blob_name

KnownExtension_AnyCase(extension) ==
    IF extension = <<"PARQUET">> THEN KNOWN_EXTENSIONS.parquet
    ELSE IF Len(extension) = 1 /\ extension[1] \in DOMAIN KNOWN_EXTENSIONS
    THEN KNOWN_EXTENSIONS[extension[1]]
    ELSE <<None, None>>

\* KNOWN_EXTENSIONS.get(extension, (None, None))
KnownExtension(extension) ==
    IF Len(extension) = 1 /\ extension[1] \in DOMAIN KNOWN_EXTENSIONS
    THEN KNOWN_EXTENSIONS[extension[1]]
    ELSE <<None, None>>

\* ------------------------------------------------------- partition schemes
DefaultPartitionScheme(format) == [kind |-> "default", format |-> format]

MabelPartitionScheme == [kind |-> "mabel", format |-> "year_{yyyy}/month_{mm}/day_{dd}"]

FrameAtoms == {"as_at_1", "as_at_2"}

FramesOf(blob_list) == UNION {Range(blob_list[i]) \cap FrameAtoms : i \in DOMAIN blob_list}

\* DefaultPartitionScheme.filter_blobs keeps every blob; the Mabel scheme
\* keeps the blobs of one frame, the latest one named in the partition.
FilterBlobs(scheme, blob_list) ==
    IF scheme.kind = "mabel" /\ FramesOf(blob_list) # {}
    THEN LET chosen == CHOOSE f \in FramesOf(blob_list) :
                          \A g \in FramesOf(blob_list) : AtomRank(g) <= AtomRank(f)
             InFrame(blob) == chosen \in Range(blob)
         IN SelectSeq(blob_list, InFrame)
    ELSE blob_list

\* ------------------------------------------------- dict (insertion ordered)
DictHas(d, key) == \E i \in DOMAIN d : d[i].partition = key

DictSet_Front(d, key, value) ==
    IF DictHas(d, key)
    THEN [i \in DOMAIN d |-> IF d[i].partition = key
                             THEN [partition |-> key, blob_list |-> value] ELSE d[i]]
    ELSE <<[partition |-> key, blob_list |-> value]>> \o d

\* d[key] = value
DictSet(d, key, value) ==
    IF DictHas(d, key)
    THEN [i \in DOMAIN d |-> IF d[i].partition = key
                             THEN [partition |-> key, blob_list |-> value] ELSE d[i]]
    ELSE Append(d, [partition |-> key, blob_list |-> value])

\* d.pop(key)
DictPop(d, key) ==
    LET Keep(entry) == entry.partition # key IN SelectSeq(d, Keep)

\* d.values()
DictValues(d) == d

VARIABLES
    storage,     \* the storage adapter's content: partitions and their blob lists
    config,      \* the keyword arguments and module configuration of the node
    cache_store, \* the content of the process-wide blob cache: key -> bytes
    stats,       \* the QueryStatistics object
    node,        \* the fields of the BlobReaderNode
    gen,         \* the locals of the execute() generator and the pipeline it drives
    pc,          \* where the node is: init, ready, reading, done, failed, error
    error,       \* the exception that left the constructor or the generator
    emitted      \* the batches yielded so far

vars == <<storage, config, cache_store, stats, node, gen, pc, error, emitted>>

\* ----------------------------------------------------------------- scanner
\* One pass of the loop over the blobs of a partition: a DATA blob joins the
\* partition's blob list with its decoder, the others are only counted.
ClassifyBlob(acc, blob_name) ==
    LET extension == Extension(blob_name)
        decoder == KnownExtension(extension)[1]
        file_type == KnownExtension(extension)[2]
    IN IF file_type = ExtentionType.DATA
       THEN [acc EXCEPT !.blob_list = Append(@, <<blob_name, decoder>>)]
       ELSE IF file_type = ExtentionType.CONTROL
       THEN [acc EXCEPT !.stats.count_control_blobs_found = @ + 1]
       ELSE [acc EXCEPT !.stats.count_unknown_blob_type_found = @ + 1]

RECURSIVE ClassifyBlobs(_, _)
ClassifyBlobs(acc, blob_list) ==
    IF blob_list = <<>> THEN acc
    ELSE ClassifyBlobs(ClassifyBlob(acc, Head(blob_list)), Tail(blob_list))

PartitionIsEmpty_Never(blob_list) == FALSE

\* len(partition_structure[partition]["blob_list"]) == 0
PartitionIsEmpty(blob_list) == Len(blob_list) = 0

\* One pass of the loop over the partitions.
ScanPartition(acc, partition, scheme, adapter) ==
    LET opened == DictSet(acc.partition_structure, partition, <<>>)
        listed == adapter.blobs[partition]
        NotFolder(blob) == ~EndsWithSlash(blob)
        blob_list == SelectSeq(listed, NotFolder)
        count_blobs_found == Len(blob_list)
        framed == FilterBlobs(scheme, blob_list)
        counted == [acc.stats EXCEPT
                       !.partitions_scanned = @ + 1,
                       !.count_blobs_found = @ + count_blobs_found,
                       !.count_blobs_ignored_frames = @ + (count_blobs_found - Len(framed))]
        classified == ClassifyBlobs([stats |-> counted, blob_list |-> <<>>], framed)
        filled == DictSet(opened, partition, classified.blob_list)
    IN [stats |-> classified.stats,
        partition_structure |->
            IF PartitionIsEmpty(classified.blob_list) THEN DictPop(filled, partition)
            ELSE filled]

RECURSIVE ScanPartitions(_, _, _, _)
ScanPartitions(acc, partitions, scheme, adapter) ==
    IF partitions = <<>> THEN acc
    ELSE ScanPartitions(ScanPartition(acc, Head(partitions), scheme, adapter),
                        Tail(partitions), scheme, adapter)

DatasetNotFound == "DatabaseError: The requested dataset could not be found."

\* BlobReaderNode._scanner: the statistics after the scan, the reading list
\* and the exception raised, if any.
Scanner(st, scheme, adapter) ==
    LET partitions == adapter.partitions
        found == [st EXCEPT !.partitions_found = @ + Len(partitions)]
        scanned == ScanPartitions([stats |-> found, partition_structure |-> <<>>],
                                  partitions, scheme, adapter)
    IN [stats |-> scanned.stats,
        partition_structure |-> scanned.partition_structure,
        raised |-> IF Len(scanned.partition_structure) = 0 THEN DatasetNotFound ELSE None]

\* ---------------------------------------------------------------- __init__
NoValue == <<>>

Some(value) == <<value>>

NodeCache_HintIgnored(hints, cache) == cache

\* WITH hint can turn off caching
NodeCache(hints, cache) == IF "NO_CACHE" \in hints THEN None ELSE cache

NodePartitionScheme_HintIgnored(hints, partition_scheme) ==
    IF partition_scheme = None THEN DefaultPartitionScheme("")
    ELSE IF partition_scheme # "mabel" THEN DefaultPartitionScheme(partition_scheme)
    ELSE MabelPartitionScheme

\* WITH hint can turn off partitioning, otherwise get it from config
NodePartitionScheme(hints, partition_scheme) ==
    IF "NO_PARTITION" \in hints \/ partition_scheme = None THEN DefaultPartitionScheme("")
    ELSE IF partition_scheme # "mabel" THEN DefaultPartitionScheme(partition_scheme)
    ELSE MabelPartitionScheme

NodeSelection_HintIgnored(hints, selection) ==
    IF selection = NoValue THEN NoValue
    ELSE IF selection[1] = "list" THEN Some(Range(selection[2]))
    ELSE Some(selection[2])

\* pushed down selection: None under NO_PUSH_PROJECTION, else the planner's
\* selection, which is None (NoValue), a set <<"set", S>> or a list
\* <<"list", l>>; a list becomes the set of its elements
NodeSelection(hints, selection) ==
    IF "NO_PUSH_PROJECTION" \in hints THEN NoValue
    ELSE IF selection = NoValue THEN NoValue
    ELSE IF selection[1] = "list" THEN Some(Range(selection[2]))
    ELSE Some(selection[2])

BlankNode ==
    [_cache |-> None, _disable_cache |-> FALSE, _partition_scheme |-> DefaultPartitionScheme(""),
     _selection |-> NoValue, _reading_list |-> <<>>, _row_count_estimate |-> NoValue]

BlankGen ==
    [metadata |-> NoValue, schema |-> NoValue, partition |-> 0, tasks |-> <<>>,
     results |-> <<>>, started |-> <<>>]

\* BlobReaderNode.__init__ for a dataset given by name
Construct ==
    /\ pc = "init"
    /\ LET scheme == NodePartitionScheme(config.hints, config.PARTITION_SCHEME)
           scan == Scanner(stats, scheme, storage)
       IN /\ stats' = scan.stats
          /\ node' = [_cache |-> NodeCache(config.hints, config.cache),
                      _disable_cache |-> "NO_CACHE" \in config.hints,
                      _partition_scheme |-> scheme,
                      _selection |-> NodeSelection(config.hints, config.selection),
                      _reading_list |-> IF scan.raised = None THEN scan.partition_structure
                                        ELSE <<>>,
                      _row_count_estimate |-> NoValue]
          /\ pc' = IF scan.raised = None THEN "ready" ELSE "failed"
          /\ error' = scan.raised
    /\ UNCHANGED <<storage, config, cache_store, gen, emitted>>

\* ---------------------------------------------------------------- decoders
Table(columns, num_rows) == [columns |-> columns, num_rows |-> num_rows]

ColumnNames(columns) == {columns[i].name : i \in DOMAIN columns}

\* table.nbytes, with every cell one byte wide
TableBytes(table) == table.num_rows * Len(table.columns)

parquet_decoder_AllColumns(stream, projection) ==
    Table(BlobContent(stream.blob).columns, BlobContent(stream.blob).num_rows)

\* parquet_decoder: a projection that is a list or set without "*" restricts
\* the columns read to those of the file that the projection names
parquet_decoder(stream, projection) ==
    LET file == BlobContent(stream.blob)
        Selected(column) == column.name \in projection[1]
    IN IF projection # NoValue /\ "*" \notin projection[1]
       THEN Table(SelectSeq(file.columns, Selected), file.num_rows)
       ELSE Table(file.columns, file.num_rows)

\* jsonl, zstd, orc and arrow decoders read every column
full_decoder(stream, projection) ==
    Table(BlobContent(stream.blob).columns, BlobContent(stream.blob).num_rows)

Decode(parser, stream, projection) ==
    IF parser = "parquet_decoder" THEN parquet_decoder(stream, projection)
    ELSE full_decoder(stream, projection)

\* ------------------------------------------------------------ cache, reader
\* format(CityHash64(path), "X"): distinct paths have distinct keys
BlobHash(path) == <<"X">> \o path

\* self._reader.read_blob(path): the stream of the blob's bytes
ReadBlob(path) == [blob |-> path, nbytes |-> BlobContent(path).nbytes]

\* how the calls a task makes can end
CacheGetOutcomes == {"ok", "TimeoutError"}
CacheSetOutcomes == {"ok", "ConnectionResetError", "BrokenPipeError", "TimeoutError"}
ReadOutcomes == {"ok", "FileNotFoundError"}
ParseOutcomes == {"ok", "ArrowInvalid"}

Outcomes ==
    [get : CacheGetOutcomes, read : ReadOutcomes, set : CacheSetOutcomes,
     parse : ParseOutcomes]

\* the exceptions of cache.set that the work function catches
CaughtOnSet == {"ConnectionResetError", "BrokenPipeError"}

\* blob_bytes.getbuffer().nbytes < MAX_SIZE_SINGLE_CACHE_ITEM
FitsInCache(nbytes) == nbytes < MAX_SIZE_SINGLE_CACHE_ITEM

IsMiss_Never(use_cache, hit) == FALSE

IsMiss_Always(use_cache, hit) == use_cache

\* if blob_bytes is None, inside the branch of a cache that is set
IsMiss(use_cache, hit) == use_cache /\ ~hit

Bump(st, counter, flag) == [st EXCEPT ![counter] = @ + (IF flag THEN 1 ELSE 0)]

\* BlobReaderNode._read_and_parse on one task, the calls ending as env says:
\* the statistics and the cache content afterwards, and either the returned
\* tuple or the exception that left the function.  calls lists the calls
\* made to the cache, the reader and the decoder ("!" marks one that raised).
ReadAndParse(task, env, st, store) ==
    LET path == task[1]
        parser == task[3]
        cache == task[4]
        projection == task[5]
        blob_hash == BlobHash(path)
        use_cache == cache # None
        get_raised == use_cache /\ env.get # "ok"
        cache_after_get == IF get_raised THEN None ELSE cache
        hit == use_cache /\ ~get_raised /\ blob_hash \in DOMAIN store
        miss == IsMiss(use_cache, hit)
        read_called == ~use_cache \/ miss
        read_raised == read_called /\ env.read # "ok"
        blob_bytes == IF hit THEN store[blob_hash] ELSE ReadBlob(path)
        after_read == miss /\ ~read_raised
        set_called == after_read /\ cache_after_get # None /\ FitsInCache(blob_bytes.nbytes)
        set_caught == set_called /\ env.set \in CaughtOnSet
        set_raised == set_called /\ env.set # "ok" /\ ~set_caught
        oversize == after_read /\ ~set_called /\ cache_after_get # None
        no_cache_left == after_read /\ ~set_called /\ cache_after_get = None
        parse_called == ~read_raised /\ ~set_raised
        parse_raised == parse_called /\ env.parse # "ok"
        raised == IF read_raised THEN env.read
                  ELSE IF set_raised THEN env.set
                  ELSE IF parse_raised THEN env.parse
                  ELSE None
        calls == (IF use_cache THEN <<IF get_raised THEN "cache.get!" ELSE "cache.get">>
                  ELSE <<>>)
                 \o (IF read_called THEN <<IF read_raised THEN "read_fn!" ELSE "read_fn">>
                     ELSE <<>>)
                 \o (IF set_called THEN <<IF env.set # "ok" THEN "cache.set!" ELSE "cache.set">>
                     ELSE <<>>)
                 \o (IF parse_called THEN <<IF parse_raised THEN "decoder!" ELSE "decoder">>
                     ELSE <<>>)
    IN [stats |-> Bump(Bump(Bump(Bump(st, "cache_misses", miss), "cache_hits", hit),
                            "cache_errors", set_caught \/ no_cache_left),
                       "cache_oversize", oversize),
        store |-> IF set_called /\ env.set = "ok"
                  THEN [key \in DOMAIN store \cup {blob_hash} |->
                           IF key = blob_hash THEN blob_bytes ELSE store[key]]
                  ELSE store,
        result |-> [path |-> path,
                    raised |-> raised,
                    nbytes |-> blob_bytes.nbytes,
                    table |-> IF raised = None THEN Decode(parser, blob_bytes, projection)
                              ELSE Table(<<>>, 0),
                    projection |-> projection,
                    calls |-> calls]]

\* ----------------------------------------------------------------- execute
TemporalTypes == {"date32[day]", "date64", "timestamp[s]", "timestamp[ms]"}

NormalizeType(type_name) ==
    IF type_name \in TemporalTypes THEN "timestamp[us]"
    ELSE IF type_name = "list<item: null>" THEN "list<item: string>"
    ELSE type_name

\* _normalize_to_types: the cast table; its columns are the schema returned
NormalizeToTypes(table) ==
    [table EXCEPT !.columns =
        [i \in DOMAIN table.columns |->
            Field(table.columns[i].name, NormalizeType(table.columns[i].type))]]

ColumnNamed(columns, name) == columns[CHOOSE i \in DOMAIN columns : columns[i].name = name]

RemoveUnwanted_Nothing(schema, table) == table

\* pyarrow_blob.select([name for name in schema.names
\*                      if name in pyarrow_blob.schema.names])
RemoveUnwanted(schema, table) ==
    LET Wanted(field) == field.name \in ColumnNames(table.columns)
        names == SelectSeq(schema, Wanted)
    IN [table EXCEPT !.columns =
           [i \in DOMAIN names |-> ColumnNamed(table.columns, names[i].name)]]

\* the estimate made from the first blob decoded
RowCountEstimate(num_rows, st) ==
    num_rows * (st.count_blobs_found
                - st.count_blobs_ignored_frames
                - st.count_control_blobs_found
                - st.count_unknown_blob_type_found)

\* Columns.create_table_metadata and Columns(table): the table carries the
\* estimate, the metadata remembers it with the table's columns
CreateTableMetadata(table, expected_rows) ==
    [columns |-> table.columns, expected_rows |-> expected_rows]

ApplyOutcomes == [apply : {"ok", "KeyError"}, retry : {"ok", "KeyError"}]

\* the calls of metadata.apply on a batch, as they end: none on the first
\* batch, one when it succeeds, a second one after the first has failed
ApplyCalls(first, env) ==
    IF first THEN <<>>
    ELSE IF env.apply = "ok" THEN <<env.apply>>
    ELSE <<env.apply, env.retry>>

RaisedByApply_Swallowed(calls) == None

\* the exception that leaves the loop: that of the second apply, which no
\* try covers
RaisedByApply(calls) ==
    IF Len(calls) = 2 /\ calls[2] # "ok" THEN calls[2] ELSE None

CountBlobRead_NotCounted(st, result) ==
    [st EXCEPT !.bytes_read_data = @ + result.nbytes,
               !.rows_read = @ + result.table.num_rows,
               !.bytes_processed_data = @ + TableBytes(result.table)]

\* the counters of a blob that arrives from the pipeline
CountBlobRead(st, result) ==
    [st EXCEPT !.count_data_blobs_read = @ + 1,
               !.bytes_read_data = @ + result.nbytes,
               !.rows_read = @ + result.table.num_rows,
               !.bytes_processed_data = @ + TableBytes(result.table)]

\* The body of the loop over the decoded blobs, from the result arriving to
\* the yield (or to the exception leaving the generator).
ProcessBlob(result, env, st, nd, g) ==
    LET pyarrow_blob == result.table
        read == CountBlobRead(st, result)
        estimate == IF nd._row_count_estimate = NoValue
                    THEN Some(RowCountEstimate(pyarrow_blob.num_rows, read))
                    ELSE nd._row_count_estimate
        first == g.metadata = NoValue
        metadata == IF first THEN Some(CreateTableMetadata(pyarrow_blob, estimate[1]))
                    ELSE g.metadata
        applied == ApplyCalls(first, env)
        apply_failed == Len(applied) = 2
        raised == RaisedByApply(applied)
        counted == IF first THEN [read EXCEPT !.columns_read = @ + Len(pyarrow_blob.columns)]
                   ELSE Bump(read, "read_errors", apply_failed)
        selected == IF g.schema = NoValue THEN pyarrow_blob
                    ELSE RemoveUnwanted(g.schema[1], pyarrow_blob)
        normalized == NormalizeToTypes(selected)
    IN [stats |-> counted,
        node |-> [nd EXCEPT !._row_count_estimate = estimate],
        raised |-> raised,
        metadata |-> metadata,
        schema |-> IF raised = None THEN Some(normalized.columns) ELSE g.schema,
        batch |-> [columns |-> normalized.columns,
                   num_rows |-> normalized.num_rows,
                   expected_rows |-> metadata[1].expected_rows,
                   source |-> result.path,
                   partition |-> g.partition,
                   applied |-> applied]]

Queued == [status |-> "queued", result |-> NoValue]

AllConsumed(g) == \A i \in DOMAIN g.results : g.results[i].status = "consumed"

\* the task list handed to the pipeline for one partition
TaskList(partition, nd) ==
    LET blobs == sorted(partition.blob_list)
    IN [i \in DOMAIN blobs |->
           <<blobs[i][1], "read_blob", blobs[i][2], nd._cache, nd._selection>>]

\* execute() runs up to the call of the pipeline for the next partition
StartPartition ==
    /\ pc \in {"ready", "reading"}
    /\ AllConsumed(gen)
    /\ gen.partition < Len(DictValues(node._reading_list))
    /\ LET partition == DictValues(node._reading_list)[gen.partition + 1]
           tasks == TaskList(partition, node)
       IN gen' = [gen EXCEPT !.partition = @ + 1,
                             !.tasks = tasks,
                             !.results = [i \in DOMAIN tasks |-> Queued],
                             !.started = Append(@, partition.partition)]
    /\ stats' = [stats EXCEPT !.partitions_read = @ + 1]
    /\ pc' = "reading"
    /\ UNCHANGED <<storage, config, cache_store, node, error, emitted>>

\* a worker of the pipeline runs the work function on one task
Work ==
    /\ pc = "reading"
    /\ \E i \in DOMAIN gen.tasks :
         /\ gen.results[i].status = "queued"
         /\ \E env \in Outcomes :
              LET ran == ReadAndParse(gen.tasks[i], env, stats, cache_store)
              IN /\ stats' = ran.stats
                 /\ cache_store' = ran.store
                 /\ gen' = [gen EXCEPT !.results[i] =
                                [status |-> "done", result |-> Some(ran.result)]]
    /\ UNCHANGED <<storage, config, node, pc, error, emitted>>

\* the generator takes one result from the pipeline, whichever is ready, and
\* runs to its next yield
ConsumeWith(outcomes) ==
    /\ pc = "reading"
    /\ \E i \in DOMAIN gen.tasks :
         /\ gen.results[i].status = "done"
         /\ gen.results[i].result[1].raised = None
         /\ \E env \in outcomes :
              LET done == ProcessBlob(gen.results[i].result[1], env, stats, node, gen)
              IN /\ stats' = done.stats
                 /\ node' = done.node
                 /\ gen' = [gen EXCEPT !.results[i].status = "consumed",
                                       !.metadata = done.metadata,
                                       !.schema = done.schema]
                 /\ IF done.raised = None
                    THEN /\ emitted' = Append(emitted, done.batch)
                         /\ UNCHANGED <<pc, error>>
                    ELSE /\ pc' = "error"
                         /\ error' = done.raised
                         /\ UNCHANGED emitted
    /\ UNCHANGED <<storage, config, cache_store>>

Consume == ConsumeWith(ApplyOutcomes)

\* the same with a metadata.apply that does not fail
ConsumeWorking == ConsumeWith({[apply |-> "ok", retry |-> "ok"]})

\* the exception of a failed task leaves the pipeline and the generator
Fail ==
    /\ pc = "reading"
    /\ \E i \in DOMAIN gen.tasks :
         /\ gen.results[i].status = "done"
         /\ gen.results[i].result[1].raised # None
         /\ gen' = [gen EXCEPT !.results[i].status = "raised"]
         /\ error' = gen.results[i].result[1].raised
    /\ pc' = "error"
    /\ UNCHANGED <<storage, config, cache_store, stats, node, emitted>>

\* the loop over the reading list ends and the generator returns
Finish ==
    /\ pc = "reading"
    /\ AllConsumed(gen)
    /\ gen.partition = Len(DictValues(node._reading_list))
    /\ pc' = "done"
    /\ UNCHANGED <<storage, config, cache_store, stats, node, gen, error, emitted>>

\* ----------------------------------------------------------- specification
Hints == {"NO_CACHE", "NO_PARTITION", "NO_PUSH_PROJECTION"}

\* what get_blob_list can answer for a partition: some of its blobs, in any
\* order, each named once
Listings(partition) ==
    {l \in SeqsUpTo(BlobUniverse(partition), MaxBlobs) : IsInjective(l)}

\* the adapters: the partitions get_partitions answers, and their blobs, at
\* most MaxBlobs of them in all
Storages ==
    {a \in [partitions : SeqsUpTo(PartitionPaths, MaxParts),
            blobs : [PartitionPaths -> UNION {Listings(p) : p \in PartitionPaths}]] :
        /\ \A p \in PartitionPaths :
              /\ a.blobs[p] \in Listings(p)
              /\ p \notin Range(a.partitions) => a.blobs[p] = <<>>
        /\ Len(a.blobs[P1]) + Len(a.blobs[P2]) <= MaxBlobs}

\* the cache as the query finds it: empty, or holding every DATA blob (a
\* reader told not to use the cache is given a cache that holds them)
WarmStore == [key \in {BlobHash(b) : b \in {A1, A2, B1}} |->
                 ReadBlob(CHOOSE b \in {A1, A2, B1} : BlobHash(b) = key)]

Init ==
    /\ storage \in Storages
    /\ config \in [hints : SUBSET {"NO_CACHE", "NO_PARTITION"},
                    cache : {None, "cache"},
                    PARTITION_SCHEME : {"mabel"},
                    selection : {NoValue}]
    /\ cache_store \in {<<>>, WarmStore}
    /\ config.cache = None => cache_store = <<>> /\ "NO_CACHE" \notin config.hints
    /\ "NO_CACHE" \in config.hints => cache_store = WarmStore
    /\ stats = QueryStatistics
    /\ node = BlankNode
    /\ gen = BlankGen
    /\ pc = "init"
    /\ error = None
    /\ emitted = <<>>

Next == Construct \/ StartPartition \/ Work \/ Consume \/ Fail \/ Finish

Spec == Init /\ [][Next]_vars

\* what the planner can hand the reader as its selection
Selections ==
    {NoValue, <<"set", {"c1"}>>, <<"set", {"c3", "c9"}>>, <<"set", {"*", "c1"}>>,
     <<"list", <<"c2", "c1", "c2">>>>, <<"list", <<"*">>>>}

\* the values config.PARTITION_SCHEME can have
PartitionSchemes == {None, "mabel", "MABEL", "year_{yyyy}"}

\* the adapters that answer one partition holding DATA blobs only
DataStorages ==
    {a \in Storages :
        /\ Len(a.partitions) = 1
        /\ a.blobs[a.partitions[1]] # <<>>
        /\ \A blob \in Range(a.blobs[a.partitions[1]]) : blob \in {A1, A2, B1}}

\* the reader under every hint, configured scheme and planner selection,
\* without a cache
InitPushdown ==
    /\ storage \in DataStorages
    /\ config \in [hints : SUBSET {"NO_PARTITION", "NO_PUSH_PROJECTION"},
                    cache : {None},
                    PARTITION_SCHEME : PartitionSchemes,
                    selection : Selections]
    /\ cache_store = <<>>
    /\ stats = QueryStatistics
    /\ node = BlankNode
    /\ gen = BlankGen
    /\ pc = "init"
    /\ error = None
    /\ emitted = <<>>

SpecPushdown == InitPushdown /\ [][Next]_vars

\* the adapters that answer the first partition with up to three DATA blobs,
\* one of them with a date64 column (pyarrow prints the type as date64[ms])
WideStorages ==
    {[partitions |-> <<P1>>, blobs |-> [p \in PartitionPaths |-> IF p = P1 THEN l ELSE <<>>]] :
        l \in {s \in SeqsUpTo({A1, A2, A4}, 3) : s # <<>> /\ IsInjective(s)}}

\* the reader over these, without a cache
InitWide ==
    /\ storage \in WideStorages
    /\ config \in [hints : SUBSET {"NO_PARTITION"},
                    cache : {None},
                    PARTITION_SCHEME : {"mabel"},
                    selection : {NoValue}]
    /\ cache_store = <<>>
    /\ stats = QueryStatistics
    /\ node = BlankNode
    /\ gen = BlankGen
    /\ pc = "init"
    /\ error = None
    /\ emitted = <<>>

SpecWide == InitWide /\ [][Next]_vars

\* The statistics object belongs to the query: a reader is constructed on the
\* object as the readers constructed before it left it.  Here another reader
\* of the query has scanned its dataset, or none has.
OtherStorages ==
    {[partitions |-> <<P2>>,
      blobs |-> [p \in PartitionPaths |-> IF p = P2 THEN l ELSE <<>>]] :
        l \in {<<B1>>, <<B1, B2>>}}

SharedStatistics ==
    {QueryStatistics}
        \cup {Scanner(QueryStatistics, MabelPartitionScheme, a).stats : a \in OtherStorages}

\* a reader of a query with several readers, without a cache, the adapter
\* answering every partition once
InitShared ==
    /\ storage \in {a \in Storages : IsInjective(a.partitions)}
    /\ config \in [hints : SUBSET {"NO_PARTITION"},
                    cache : {None},
                    PARTITION_SCHEME : {"mabel"},
                    selection : {NoValue}]
    /\ cache_store = <<>>
    /\ stats \in SharedStatistics
    /\ node = BlankNode
    /\ gen = BlankGen
    /\ pc = "init"
    /\ error = None
    /\ emitted = <<>>

SpecShared == InitShared /\ [][Next]_vars

\* ------------------------------------------------------ concurrent workers
\* The workers of the pipeline run _read_and_parse at the same time on the
\* one statistics object.  "counter += 1" reads the counter, adds one and
\* writes it back; another worker can run between the read and the write.

\* the counters _read_and_parse adds one to, in the order it does
Increments(before, after) ==
    LET Raised(counter) == after[counter] # before[counter]
    IN SelectSeq(<<"cache_misses", "cache_hits", "cache_errors", "cache_oversize">>, Raised)

\* a worker takes a task and runs _read_and_parse on it; what is left to do
\* on the statistics is kept with the task
WorkBeginWith(outcomes) ==
    /\ pc = "reading"
    /\ \E i \in DOMAIN gen.tasks :
         /\ gen.results[i].status = "queued"
         /\ \E env \in outcomes :
              LET ran == ReadAndParse(gen.tasks[i], env, stats, cache_store)
              IN /\ cache_store' = ran.store
                 /\ gen' = [gen EXCEPT !.results[i] =
                                [status |-> "running",
                                 result |-> <<ran.result, Increments(stats, ran.stats),
                                              NoValue>>]]
    /\ UNCHANGED <<storage, config, stats, node, pc, error, emitted>>

WorkBegin == WorkBeginWith(Outcomes)

\* the same with an adapter, a cache and decoders that do not fail
WorkBeginWorking ==
    WorkBeginWith({[get |-> "ok", read |-> "ok", set |-> "ok", parse |-> "ok"]})

\* the worker reads the counter it is about to add to
WorkLoad ==
    /\ pc = "reading"
    /\ \E i \in DOMAIN gen.tasks :
         /\ gen.results[i].status = "running"
         /\ gen.results[i].result[2] # <<>>
         /\ gen.results[i].result[3] = NoValue
         /\ gen' = [gen EXCEPT !.results[i].result[3] =
                                   Some(stats[Head(gen.results[i].result[2])])]
    /\ UNCHANGED <<storage, config, cache_store, stats, node, pc, error, emitted>>

\* the worker writes the value it read, plus one
WorkStore ==
    /\ pc = "reading"
    /\ \E i \in DOMAIN gen.tasks :
         /\ gen.results[i].status = "running"
         /\ gen.results[i].result[3] # NoValue
         /\ stats' = [stats EXCEPT ![Head(gen.results[i].result[2])] =
                                       gen.results[i].result[3][1] + 1]
         /\ gen' = [gen EXCEPT !.results[i].result[2] = Tail(@),
                               !.results[i].result[3] = NoValue]
    /\ UNCHANGED <<storage, config, cache_store, node, pc, error, emitted>>

\* _read_and_parse returns, or raises
WorkEnd ==
    /\ pc = "reading"
    /\ \E i \in DOMAIN gen.tasks :
         /\ gen.results[i].status = "running"
         /\ gen.results[i].result[2] = <<>>
         /\ gen' = [gen EXCEPT !.results[i] =
                        [status |-> "done", result |-> Some(gen.results[i].result[1])]]
    /\ UNCHANGED <<storage, config, cache_store, stats, node, pc, error, emitted>>

\* the reader with a cache, over partitions of DATA blobs
InitWorkers ==
    /\ storage \in DataStorages
    /\ config \in [hints : SUBSET {"NO_PARTITION"},
                    cache : {"cache"},
                    PARTITION_SCHEME : {"mabel"},
                    selection : {NoValue}]
    /\ cache_store \in {<<>>, WarmStore}
    /\ stats = QueryStatistics
    /\ node = BlankNode
    /\ gen = BlankGen
    /\ pc = "init"
    /\ error = None
    /\ emitted = <<>>

NextWorkers ==
    \/ Construct \/ StartPartition
    \/ WorkBegin \/ WorkLoad \/ WorkStore \/ WorkEnd
    \/ Consume \/ Fail \/ Finish

SpecWorkers == InitWorkers /\ [][NextWorkers]_vars

\* the reader with an empty cache over one partition of three DATA blobs, its
\* workers running at the same time, nothing failing
InitWorkersWide ==
    /\ storage \in {a \in WideStorages : a.blobs[P1] = <<A1, A2, A4>>}
    /\ config \in [hints : {{"NO_PARTITION"}},
                    cache : {"cache"},
                    PARTITION_SCHEME : {"mabel"},
                    selection : {NoValue}]
    /\ cache_store = <<>>
    /\ stats = QueryStatistics
    /\ node = BlankNode
    /\ gen = BlankGen
    /\ pc = "init"
    /\ error = None
    /\ emitted = <<>>

NextWorkersWide ==
    \/ Construct \/ StartPartition
    \/ WorkBeginWorking \/ WorkLoad \/ WorkStore \/ WorkEnd
    \/ ConsumeWorking \/ Finish

SpecWorkersWide == InitWorkersWide /\ [][NextWorkersWide]_vars

\* every kind of blob name in the second partition: DATA, unknown extension,
\* folder, extension in upper case, no extension, CONTROL after a DATA
\* extension, a "." only in a folder's name
NamedBlobs(partition) ==
    IF partition = P1 THEN {A1, A2, A3} ELSE {B1, B2, B3, B4, B5, B6, B7}

\* the adapters over these names, at most MaxBlobs listed in all
NamedStorages ==
    {a \in [partitions : SeqsUpTo(PartitionPaths, MaxParts),
            blobs : [PartitionPaths ->
                        UNION {SeqsUpTo(NamedBlobs(p), MaxBlobs) : p \in PartitionPaths}]] :
        /\ \A p \in PartitionPaths :
              /\ Range(a.blobs[p]) \subseteq NamedBlobs(p)
              /\ IsInjective(a.blobs[p])
              /\ p \notin Range(a.partitions) => a.blobs[p] = <<>>
        /\ Len(a.blobs[P1]) + Len(a.blobs[P2]) <= MaxBlobs}

\* the reader over blobs of every kind of name, without a cache
InitNamed ==
    /\ storage \in NamedStorages
    /\ config \in [hints : SUBSET {"NO_PARTITION"},
                    cache : {None},
                    PARTITION_SCHEME : {"mabel"},
                    selection : {NoValue}]
    /\ cache_store = <<>>
    /\ stats = QueryStatistics
    /\ node = BlankNode
    /\ gen = BlankGen
    /\ pc = "init"
    /\ error = None
    /\ emitted = <<>>

SpecNamed == InitNamed /\ [][Next]_vars

\* ---------------------------------------------------------- selection node
\* The Selection operator, in the variables of the reader: config is what the
\* planner gives the node (its filter, its producers), node the node's
\* fields, gen the locals of its execute() generator and of the consolidation
\* it reads through, emitted the batches it has yielded.
MaxPages == 2

Page(columns, rows) == [columns |-> columns, rows |-> rows]

PageColumns == <<"id", "name">>

\* the pages a producer can yield; a row is written as its value
PageUniverse ==
    {Page(PageColumns, <<>>), Page(PageColumns, <<1>>),
     Page(PageColumns, <<1, 2>>), Page(PageColumns, <<2, 1, 2>>)}

\* a producer: an operator, with the pages its execute() yields, or a Table
Producer(kind, pages) == [kind |-> kind, pages |-> pages]

Producers ==
    {Producer("node", pages) : pages \in SeqsUpTo(PageUniverse, MaxPages)}
    \cup {Producer("Table", <<page>>) : page \in PageUniverse}

ProducerLists ==
    {<<>>} \cup {<<p>> : p \in Producers}
    \cup {<<p, q>> : p, q \in {Producer("node", <<Page(PageColumns, <<1, 2>>)>>),
                               Producer("Table", <<Page(PageColumns, <<1>>)>>)}}

\* the filter: None, or a predicate, written as the set of the row values
\* that satisfy it
Filters == {NoValue, Some({}), Some({2}), Some({1, 2})}

\* what the evaluator answers with: a pyarrow BooleanArray, a numpy array of
\* booleans, or an array of row indices
MaskKinds == {"BooleanArray", "ndarray[bool]", "ndarray[int]"}

Nonzero_All(mask) == [i \in DOMAIN mask |-> i]

\* numpy.nonzero(mask)[0]: the positions of the true entries, ascending
Nonzero(mask) ==
    LET IsTrue(i) == mask[i]
    IN SelectSeq([i \in DOMAIN mask |-> i], IsTrue)

\* evaluate(self._filter, page): the predicate on every row of the page
evaluate(filter, page, kind) ==
    LET booleans == [i \in DOMAIN page.rows |-> page.rows[i] \in filter[1]]
    IN [kind |-> kind,
        values |-> IF kind = "ndarray[int]" THEN Nonzero(booleans) ELSE booleans]

\* a boolean mask becomes the indices of its true entries
MaskToIndices(mask) ==
    IF mask.kind \in {"BooleanArray", "ndarray[bool]"} THEN Nonzero(mask.values)
    ELSE mask.values

\* page.take(mask)
Take(page, indices) ==
    Page(page.columns, [k \in DOMAIN indices |-> page.rows[indices[k]]])

\* consolidate_pages concatenates pages
Concat(page, other) == Page(page.columns, page.rows \o other.rows)

\* iterating an operator itself: an operator offers execute(), config, name
\* and producers, and no iteration
IterateOperator(operator) == [raised |-> "TypeError", pages |-> <<>>]

SingleProducer_AtLeastOne(producers) == Len(producers) >= 1

\* len(self._producers) != 1 raises
SingleProducer(producers) == Len(producers) = 1

BlankSelection == [pulled |-> 0, buffer |-> NoValue, pages |-> <<>>, evaluated |-> 0]

\* the first next() on execute(), up to the loop over the pages: the check of
\* the producers, and the whole pass-through when there is no filter
SelectionStart ==
    /\ pc = "ready"
    /\ LET data_pages == node._producers[1]
       IN IF ~SingleProducer(node._producers)
          THEN /\ pc' = "error"
               /\ error' = "SqlError"
               /\ UNCHANGED emitted
          ELSE IF node._filter = NoValue
          THEN LET iterated == IF data_pages.kind = "Table"
                                THEN [raised |-> None, pages |-> data_pages.pages]
                                ELSE IterateOperator(data_pages)
               IN IF iterated.raised = None
                  THEN /\ emitted' = emitted \o iterated.pages
                       /\ pc' = "passed"
                       /\ UNCHANGED error
                  ELSE /\ pc' = "error"
                       /\ error' = iterated.raised
                       /\ UNCHANGED emitted
          ELSE IF data_pages.kind = "Table"
               THEN /\ pc' = "error"
                    /\ error' = "AttributeError"
                    /\ UNCHANGED emitted
               ELSE /\ pc' = "selecting"
                    /\ UNCHANGED <<error, emitted>>
    /\ UNCHANGED <<storage, config, cache_store, stats, node, gen>>

\* consolidate_pages takes the next page of the producer's execute() and
\* adds it to the page it is collecting
SelectionPull ==
    /\ pc = "selecting"
    /\ gen.pulled < Len(node._producers[1].pages)
    /\ LET page == node._producers[1].pages[gen.pulled + 1]
       IN gen' = [gen EXCEPT !.pulled = @ + 1,
                             !.buffer = IF @ = NoValue THEN Some(page)
                                        ELSE Some(Concat(@[1], page))]
    /\ UNCHANGED <<storage, config, cache_store, stats, node, pc, error, emitted>>

\* consolidate_pages yields the page it collected; the loop evaluates the
\* filter on it and yields the rows taken
SelectionYield ==
    /\ pc = "selecting"
    /\ gen.buffer # NoValue
    /\ \E kind \in MaskKinds :
          LET page == gen.buffer[1]
              mask == evaluate(node._filter, page, kind)
          IN /\ emitted' = Append(emitted, Take(page, MaskToIndices(mask)))
             /\ gen' = [gen EXCEPT !.buffer = NoValue,
                                   !.pages = Append(@, page),
                                   !.evaluated = @ + 1]
    /\ UNCHANGED <<storage, config, cache_store, stats, node, pc, error>>

\* the producer is exhausted and nothing is left collected: execute() returns
SelectionFinish ==
    /\ pc \in {"selecting", "passed"}
    /\ pc = "selecting" =>
          gen.pulled = Len(node._producers[1].pages) /\ gen.buffer = NoValue
    /\ pc' = "done"
    /\ UNCHANGED <<storage, config, cache_store, stats, node, gen, error, emitted>>

NoStorage == [partitions |-> <<>>, blobs |-> [p \in PartitionPaths |-> <<>>]]

InitSelection ==
    /\ storage = NoStorage
    /\ config \in [filter : Filters, producers : ProducerLists]
    /\ cache_store = <<>>
    /\ stats = QueryStatistics
    /\ node = [_filter |-> config.filter, _producers |-> config.producers]
    /\ gen = BlankSelection
    /\ pc = "ready"
    /\ error = None
    /\ emitted = <<>>

NextSelection == SelectionStart \/ SelectionPull \/ SelectionYield \/ SelectionFinish

SpecSelection == InitSelection /\ [][NextSelection]_vars

\* --------------------------------------------------- internal dataset node
\* The internal dataset operator, in the variables of the reader: config is
\* what the planner gives the node (dataset, alias), gen counts the calls of
\* execute(), emitted the batches yielded.
MaxExecutes == 2

\* a name is the sequence of its characters
Satellites == <<"$", "s", "a", "t", "e", "l", "l", "i", "t", "e", "s">>

Planets == <<"$", "p", "l", "a", "n", "e", "t", "s">>

Astronauts == <<"$", "a", "s", "t", "r", "o", "n", "a", "u", "t", "s">>

NoTable == <<"$", "n", "o", "_", "t", "a", "b", "l", "e">>

DatasetNames ==
    {Satellites, Planets, Astronauts, NoTable,
     <<"$", "P", "L", "A", "N", "E", "T", "S">>,
     <<"$", "P", "l", "a", "n", "e", "t", "s">>,
     <<"$", "N", "o", "_", "T", "a", "b", "l", "e">>,
     <<"p", "l", "a", "n", "e", "t", "s">>,
     <<"$", "p", "l", "a", "n", "e", "t">>,
     <<"$", "m", "o", "o", "n", "s">>,
     <<>>}

LowerChar(c) ==
    CASE c = "A" -> "a" [] c = "E" -> "e" [] c = "L" -> "l" [] c = "N" -> "n"
      [] c = "P" -> "p" [] c = "S" -> "s" [] c = "T" -> "t" [] OTHER -> c

\* dataset.lower()
Lower(name) == [i \in DOMAIN name |-> LowerChar(name[i])]

SampleColumns(count, temporal) ==
    [i \in 1..count |-> Field(<<"column", i>>,
                              IF i \in temporal THEN "date32[day]" ELSE "string")]

\* the sample tables
SampleTable(dataset) ==
    CASE dataset = Satellites -> Table(SampleColumns(8, {}), 177)
      [] dataset = Planets -> Table(SampleColumns(20, {}), 9)
      [] dataset = Astronauts -> Table(SampleColumns(19, {3}), 357)
      [] dataset = NoTable -> Table(SampleColumns(1, {}), 1)

sample_datasets == {Satellites, Planets, Astronauts, NoTable}

\* _normalize_to_types of the internal dataset node: temporal types only
NormalizeTemporal(table) ==
    [table EXCEPT !.columns =
        [i \in DOMAIN table.columns |->
            Field(table.columns[i].name,
                  IF table.columns[i].type \in TemporalTypes THEN "timestamp[us]"
                  ELSE table.columns[i].type)]]

InSamples_CaseSensitive(dataset) == dataset \in sample_datasets

\* dataset.lower() in sample_datasets
InSamples(dataset) == Lower(dataset) \in sample_datasets

\* _get_sample_dataset: the table of a sample, or the exception raised
GetSampleDataset(dataset, alias) ==
    IF InSamples(dataset)
    THEN LET table == NormalizeTemporal(SampleTable(Lower(dataset)))
         IN [raised |-> None,
             table |-> [columns |-> table.columns,
                        num_rows |-> table.num_rows,
                        expected_rows |-> table.num_rows,
                        name |-> Lower(dataset),
                        table_aliases |-> <<alias>>]]
    ELSE [raised |-> "DatabaseError", table |-> NoValue]

\* the statistics of other operators of the query, as the node can find them
StatisticsInFlight ==
    {QueryStatistics,
     [QueryStatistics EXCEPT !.rows_read = 3, !.columns_read = 2,
                             !.bytes_processed_data = 6]}

\* execute() is called and its generator run to the yield, or to the
\* exception
InternalExecute ==
    /\ pc \in {"ready", "done"}
    /\ gen.executes < MaxExecutes
    /\ LET got == GetSampleDataset(node._dataset, node._alias)
       IN IF got.raised = None
          THEN LET pyarrow_page == got.table
               IN /\ stats' = [stats EXCEPT
                                  !.rows_read = @ + pyarrow_page.num_rows,
                                  !.bytes_processed_data = @ + TableBytes(pyarrow_page),
                                  !.columns_read = @ + Len(pyarrow_page.columns)]
                  /\ emitted' = Append(emitted, NormalizeTemporal(pyarrow_page))
                  /\ pc' = "yielded"
                  /\ UNCHANGED error
          ELSE /\ pc' = "error"
               /\ error' = got.raised
               /\ UNCHANGED <<stats, emitted>>
    /\ gen' = [gen EXCEPT !.executes = @ + 1, !.before = stats]
    /\ UNCHANGED <<storage, config, cache_store, node>>

\* the generator is resumed after its only yield and returns
InternalReturn ==
    /\ pc = "yielded"
    /\ pc' = "done"
    /\ UNCHANGED <<storage, config, cache_store, stats, node, gen, error, emitted>>

InitInternal ==
    /\ storage = NoStorage
    /\ config \in [dataset : DatasetNames, alias : {None, "p"}]
    /\ cache_store = <<>>
    /\ stats \in StatisticsInFlight
    /\ node = [_dataset |-> config.dataset, _alias |-> config.alias]
    /\ gen = [executes |-> 0, before |-> stats]
    /\ pc = "ready"
    /\ error = None
    /\ emitted = <<>>

NextInternal == InternalExecute \/ InternalReturn

SpecInternal == InitInternal /\ [][NextInternal]_vars

\* ------------------------------------------------------- embedded subquery
\* The dataset is a QueryPlanner: config.dataset is <<"QueryPlanner", tables>>,
\* the tables being what the subquery's execute() yields, each with its
\* columns, its rows and the table alias its column metadata names.
SubqueryTable(columns, num_rows) ==
    [columns |-> columns, num_rows |-> num_rows, alias |-> "inner"]

SubqueryTables ==
    {SubqueryTable(<<Field("c1", "int64")>>, 1),
     SubqueryTable(<<Field("c1", "int64"), Field("c2", "string")>>, 2)}

Subqueries == {<<"QueryPlanner", tables>> : tables \in SeqsUpTo(SubqueryTables, MaxPages)}

\* isinstance(self._dataset, (list, QueryPlanner, dict))
IsEmbedded(dataset) == dataset[1] \in {"list", "QueryPlanner", "dict"}

\* Columns(table): the column metadata the table carries
ColumnsOf(table) == [columns |-> table.columns, alias |-> table.alias]

\* metadata.rename_table(alias)
RenameTable(metadata, alias) == [metadata EXCEPT !.alias = alias]

\* metadata.apply(table): the table with the metadata's columns and alias
MetadataApply(metadata, table) ==
    [columns |-> table.columns,
     num_rows |-> table.num_rows,
     alias |-> metadata.alias,
     metadata_columns |-> metadata.columns]

SubqueryMetadata_EveryTable(metadata, table, alias) ==
    Some(RenameTable(ColumnsOf(table), alias))

\* the metadata is taken from the first table and renamed to the alias
SubqueryMetadata(metadata, table, alias) ==
    IF metadata = NoValue THEN Some(RenameTable(ColumnsOf(table), alias))
    ELSE metadata

\* BlobReaderNode.__init__ for an embedded dataset: it returns before the
\* reader, the cache, the partition scheme and the scan
ConstructSubquery ==
    /\ pc = "init"
    /\ IsEmbedded(config.dataset)
    /\ node' = [_dataset |-> config.dataset, _alias |-> config.alias]
    /\ gen' = [metadata |-> NoValue, position |-> 0]
    /\ pc' = "ready"
    /\ UNCHANGED <<storage, config, cache_store, stats, error, emitted>>

\* execute() takes the next table of the subquery and runs to its yield, or
\* to the exception of metadata.apply, which nothing catches here
SubqueryYield ==
    /\ pc \in {"ready", "reading"}
    /\ node._dataset[1] = "QueryPlanner"
    /\ gen.position < Len(node._dataset[2])
    /\ \E env \in ApplyOutcomes :
         LET table == node._dataset[2][gen.position + 1]
             first == gen.metadata = NoValue
             metadata == SubqueryMetadata(gen.metadata, table, node._alias)
         IN /\ gen' = [metadata |-> metadata, position |-> gen.position + 1]
            /\ IF first \/ env.apply = "ok"
               THEN /\ emitted' = Append(emitted, MetadataApply(metadata[1], table))
                    /\ pc' = "reading"
                    /\ UNCHANGED error
               ELSE /\ pc' = "error"
                    /\ error' = env.apply
                    /\ UNCHANGED emitted
    /\ UNCHANGED <<storage, config, cache_store, stats, node>>

\* the subquery has no more tables: execute() returns
SubqueryReturn ==
    /\ pc \in {"ready", "reading"}
    /\ node._dataset[1] = "QueryPlanner"
    /\ gen.position = Len(node._dataset[2])
    /\ pc' = "done"
    /\ UNCHANGED <<storage, config, cache_store, stats, node, gen, error, emitted>>

\* a reader over a subquery, in a query whose other reader has or has not
\* scanned, with an adapter and a cache that have blobs
InitSubquery ==
    /\ storage \in OtherStorages
    /\ config \in [dataset : Subqueries, alias : {None, "t"}]
    /\ cache_store = WarmStore
    /\ stats \in SharedStatistics
    /\ node = <<>>
    /\ gen = <<>>
    /\ pc = "init"
    /\ error = None
    /\ emitted = <<>>

NextSubquery == ConstructSubquery \/ SubqueryYield \/ SubqueryReturn

SpecSubquery == InitSubquery /\ [][NextSubquery]_vars

\* ---------------------------------------------------------- other functions
\* The functions of other_functions.py, called once on arguments drawn from
\* small sets: config is the call (function, array, argument), emitted holds
\* what it returned.
MaxItems == 2

\* set(array)
PySet(array) == {array[i] : i \in DOMAIN array}

\* list_contains: array is None (NoValue) or a list (Some)
list_contains(array, item) ==
    IF array = NoValue THEN FALSE
    ELSE item \in PySet(array[1])

list_contains_any(array, items) ==
    IF array = NoValue THEN FALSE
    ELSE PySet(array[1]) \cap {items[k] : k \in DOMAIN items} # {}

list_contains_all_AsAny(array, items) ==
    IF array = NoValue THEN FALSE
    ELSE PySet(array[1]) \cap {items[k] : k \in DOMAIN items} # {}

list_contains_all(array, items) ==
    IF array = NoValue THEN FALSE
    ELSE \A k \in DOMAIN items : items[k] \in PySet(array[1])

\* the records of a column, each with its Python type; a string is the
\* sequence of its characters
StrRecord(s) == <<"str", s>>

ListRecord(l) == <<"numpy.ndarray", l>>

DictRecord(values) == <<"dict", values>>

IntRecord(n) == <<"int", n>>

NoneRecord == <<"NoneType">>

\* type(record)
TypeOf(record) == record[1]

\* what search returns: a pyarrow BooleanArray or a numpy array of booleans,
\* with its shape and its entries in order, an entry being null (NoValue) or
\* a boolean
Result(kind, shape, values) == [kind |-> kind, shape |-> shape, values |-> values]

\* compute.match_substring(array, pattern, ignore_case=True) on one string
MatchSubstring(s, pattern) ==
    \E i \in 0..(Len(s) - Len(pattern)) :
        SubSeq(Lower(s), i + 1, i + Len(pattern)) = Lower(pattern)

search(array, item) ==
    LET needle == item[1]
    IN IF Len(array) = 0 THEN Result("numpy.ndarray", <<1>>, <<Some(FALSE)>>)
       ELSE IF TypeOf(array[1]) = "str"
       THEN Result("BooleanArray", <<Len(array)>>,
                   [i \in DOMAIN array |->
                       IF array[i] = NoneRecord THEN NoValue
                       ELSE Some(MatchSubstring(array[i][2], needle))])
       ELSE IF TypeOf(array[1]) = "numpy.ndarray"
       THEN Result("numpy.ndarray", <<Len(array)>>,
                   [i \in DOMAIN array |->
                       IF array[i] = NoneRecord THEN Some(FALSE)
                       ELSE Some(needle \in PySet(array[i][2]))])
       ELSE IF TypeOf(array[1]) = "dict"
       THEN Result("numpy.ndarray", <<Len(array)>>,
                   [i \in DOMAIN array |->
                       IF array[i] = NoneRecord THEN Some(FALSE)
                       ELSE Some(needle \in PySet(array[i][2]))])
       ELSE Result("numpy.ndarray", <<1, Len(array)>>,
                   [i \in DOMAIN array |-> Some(FALSE)])

\* the strings of the columns searched
Strings == {<<"a">>, <<"A", "t">>}

\* the columns search is called on: records of one type, None among them
SearchColumns ==
    LET Columns(records) == SeqsUpTo(records \cup {NoneRecord}, MaxItems)
    IN Columns({StrRecord(s) : s \in Strings})
       \cup Columns({ListRecord(l) : l \in {<<>>, <<<<"a">>>>, <<<<"A", "t">>, <<"a">>>>}})
       \cup Columns({DictRecord(v) : v \in {<<<<"a">>>>, <<<<"A", "t">>, <<"t">>>>}})
       \cup Columns({IntRecord(7)})

\* the calls made
Calls ==
    LET Arrays == {NoValue} \cup {Some(a) : a \in SeqsUpTo(1..2, MaxItems)}
    IN [function : {"list_contains"}, array : Arrays, argument : 1..3]
       \cup [function : {"list_contains_any", "list_contains_all"}, array : Arrays,
             argument : SeqsUpTo(1..3, MaxItems)]
       \cup [function : {"search"}, array : SearchColumns,
             argument : {<<<<"a">>>>, <<<<"t">>>>}]

CallListContains ==
    /\ pc = "ready"
    /\ config.function = "list_contains"
    /\ emitted' = <<list_contains(config.array, config.argument)>>
    /\ pc' = "done"
    /\ UNCHANGED <<storage, config, cache_store, stats, node, gen, error>>

CallListContainsAny ==
    /\ pc = "ready"
    /\ config.function = "list_contains_any"
    /\ emitted' = <<list_contains_any(config.array, config.argument)>>
    /\ pc' = "done"
    /\ UNCHANGED <<storage, config, cache_store, stats, node, gen, error>>

CallListContainsAll ==
    /\ pc = "ready"
    /\ config.function = "list_contains_all"
    /\ emitted' = <<list_contains_all(config.array, config.argument)>>
    /\ pc' = "done"
    /\ UNCHANGED <<storage, config, cache_store, stats, node, gen, error>>

CallSearch ==
    /\ pc = "ready"
    /\ config.function = "search"
    /\ emitted' = <<search(config.array, config.argument)>>
    /\ pc' = "done"
    /\ UNCHANGED <<storage, config, cache_store, stats, node, gen, error>>

InitFunctions ==
    /\ storage = NoStorage
    /\ config \in Calls
    /\ cache_store = <<>>
    /\ stats = QueryStatistics
    /\ node = <<>>
    /\ gen = <<>>
    /\ pc = "ready"
    /\ error = None
    /\ emitted = <<>>

NextFunctions == CallListContains \/ CallListContainsAny \/ CallListContainsAll \/ CallSearch

SpecFunctions == InitFunctions /\ [][NextFunctions]_vars

\* ------------------------------------------------------------------ claims
Stepped(i) == gen.results[i].status # "queued"

ResultOf(i) == gen.results[i].result[1]

Called(i, call) == call \in Range(ResultOf(i).calls)

Count(seq, Test(_)) == Len(SelectSeq(seq, Test))

\* the blobs of a partition that are neither folders nor outside the frame
\* the node's scheme keeps
Framed(partition) ==
    LET NotFolder(blob) == ~EndsWithSlash(blob)
    IN FilterBlobs(NodePartitionScheme(config.hints, config.PARTITION_SCHEME),
                   SelectSeq(storage.blobs[partition], NotFolder))

IsData(blob) == KnownExtension(Extension(blob))[2] = ExtentionType.DATA

HasData(partition) == \E i \in DOMAIN Framed(partition) : IsData(Framed(partition)[i])

DataBlobs(partition) == {blob \in Range(Framed(partition)) : IsData(blob)}

\* the partitions the adapter answered that have a DATA blob, each once, in
\* the order of their first appearance
SurvivingInOrder ==
    LET listed == storage.partitions
        FirstAndData(i) == HasData(listed[i]) /\ \A j \in 1..(i - 1) : listed[j] # listed[i]
        kept == {i \in DOMAIN listed : FirstAndData(i)}
        Nth(n) == CHOOSE i \in kept : Cardinality({j \in kept : j < i}) = n - 1
    IN [n \in 1..Cardinality(kept) |-> listed[Nth(n)]]

\* C1: after the scan and a complete execute() without error, the blobs found
\* are exactly those read, ignored as outside the frame, control or unknown,
\* whatever the adapter listed (a partition listed twice included).
C1_BlobsFoundBalance ==
    pc = "done" =>
        stats.count_blobs_found =
            stats.count_data_blobs_read + stats.count_blobs_ignored_frames
            + stats.count_control_blobs_found + stats.count_unknown_blob_type_found

Outstanding == {i \in DOMAIN gen.results : gen.results[i].status \in {"done", "raised"}}

C3_NoCacheHint ==
    "NO_CACHE" \in config.hints =>
        /\ \A i \in DOMAIN gen.results :
              Stepped(i) =>
                  /\ ResultOf(i).calls[1] \in {"read_fn", "read_fn!"}
                  /\ \A call \in {"cache.get", "cache.get!", "cache.set", "cache.set!"} :
                        ~Called(i, call)
        /\ stats.cache_hits = 0 /\ stats.cache_misses = 0
        /\ stats.cache_oversize = 0 /\ stats.cache_errors = 0

C3_Witness ==
    /\ "NO_CACHE" \in config.hints
    /\ config.cache # None
    /\ pc = "done"
    /\ Len(emitted) >= 2

\* C4: the constructor fails, with the dataset-not-found error, exactly when
\* no listed partition keeps a DATA blob after frame filtering and
\* classification; nothing is read then.
C4_NotFoundIffNoData ==
    pc # "init" =>
        /\ (pc = "failed") <=> (\A p \in Range(storage.partitions) : ~HasData(p))
        /\ pc = "failed" =>
              /\ error = DatasetNotFound
              /\ gen = BlankGen /\ emitted = <<>>
              /\ stats.count_data_blobs_read = 0 /\ stats.partitions_read = 0

C4_Witness ==
    /\ pc = "failed"
    /\ \E p \in Range(storage.partitions) : Len(Framed(p)) > 0

\* C5: every batch a reader emits after the first has only columns the first
\* emitted batch has.
C5_ColumnsWithinFirst ==
    \A k \in 2..Len(emitted) :
        ColumnNames(emitted[k].columns) \subseteq ColumnNames(emitted[1].columns)

C5_Witness ==
    /\ Len(emitted) >= 2
    /\ ~(ColumnNames(BlobContent(emitted[2].source).columns)
            \subseteq ColumnNames(emitted[1].columns))

\* C6: a cache get or set that fails is swallowed: cache_errors counts it,
\* the bytes come from read_fn, the cache is not called again for the blob
\* and the blob is decoded and emitted (read_fn and the decoder working).
C6_CacheFailureSwallowed ==
    \A i \in DOMAIN gen.results :
        (/\ Stepped(i)
         /\ Called(i, "cache.get!") \/ Called(i, "cache.set!")
         /\ ~Called(i, "read_fn!") /\ ~Called(i, "decoder!")) =>
            /\ ResultOf(i).raised = None
            /\ stats.cache_errors >= 1
            /\ Called(i, "read_fn") /\ Called(i, "decoder")
            /\ Called(i, "cache.get!") => ~Called(i, "cache.set") /\ ~Called(i, "cache.set!")

\* C7: on a miss with a working cache, cache.set is called unless the bytes
\* are larger than MAX_SIZE_SINGLE_CACHE_ITEM (a blob of exactly the limit is
\* inserted), and exactly one of the set call and cache_oversize happens.
C7_InsertUnlessLarger ==
    \A i \in DOMAIN gen.results :
        (Stepped(i) /\ Called(i, "cache.get") /\ Called(i, "read_fn")) =>
            (Called(i, "cache.set") \/ Called(i, "cache.set!"))
                <=> (ResultOf(i).nbytes <= MAX_SIZE_SINGLE_CACHE_ITEM)

\* C8: a decoder exception is recorded in the statistics object as a failed
\* task.
C8_DecodeFailureRecorded ==
    \A i \in DOMAIN gen.results :
        (Stepped(i) /\ Called(i, "decoder!")) => stats.read_errors >= 1

\* C9: the tasks handed to the pipeline for a partition are that partition's
\* DATA blobs in ascending order of path, whatever order the adapter listed
\* them in.
C9_TasksSortedByPath ==
    pc = "reading" =>
        /\ \A i, j \in DOMAIN gen.tasks : i < j => PathLess(gen.tasks[i][1], gen.tasks[j][1])
        /\ {gen.tasks[i][1] : i \in DOMAIN gen.tasks} = DataBlobs(Last(gen.started))
        /\ Len(gen.tasks) = Cardinality(DataBlobs(Last(gen.started)))

C9_Witness ==
    /\ pc = "reading"
    /\ Len(gen.tasks) = 2
    /\ storage.blobs[P1] = <<A2, A1>>
    /\ Last(gen.started) = P1

\* C10: partitions are read in the order the adapter returned them, one after
\* another: a partition is dispatched only when every batch of the one before
\* is out, and partitions_read counts each surviving partition once, when
\* its reading starts.
C10_PartitionsInOrder ==
    pc \in {"ready", "reading", "done"} =>
        /\ gen.started = SubSeq(SurvivingInOrder, 1, gen.partition)
        /\ stats.partitions_read = Len(gen.started)
        /\ pc = "done" => gen.started = SurvivingInOrder
        /\ \A k \in 1..(gen.partition - 1) :
              LET FromK(batch) == batch.partition = k
              IN Count(emitted, FromK) = Cardinality(DataBlobs(SurvivingInOrder[k]))
        /\ \A m, n \in DOMAIN emitted : m < n => emitted[m].partition <= emitted[n].partition

C10_Witness ==
    /\ pc = "done"
    /\ storage.partitions = <<P2, P1>>
    /\ gen.started = <<P2, P1>>
    /\ Len(emitted) >= 2

\* the planner's selection as a set of column names
PlannerSelection ==
    IF config.selection = NoValue THEN NoValue
    ELSE IF config.selection[1] = "list"
         THEN Some({config.selection[2][k] : k \in DOMAIN config.selection[2]})
         ELSE Some(config.selection[2])

\* C11: under the hint NO_PUSH_PROJECTION every call of a decoder gets the
\* projection None, whatever the planner selected; without the hint every call
\* gets exactly the planner's selection, a list as the set of its elements.
C11_ProjectionPushdown ==
    \A i \in DOMAIN gen.results :
        Stepped(i) /\ (Called(i, "decoder") \/ Called(i, "decoder!")) =>
            ResultOf(i).projection =
                IF "NO_PUSH_PROJECTION" \in config.hints THEN NoValue
                ELSE PlannerSelection

C11_Witness ==
    /\ "NO_PUSH_PROJECTION" \in config.hints
    /\ config.selection = <<"list", <<"c2", "c1", "c2">>>>
    /\ \E i \in DOMAIN gen.results :
          Stepped(i) /\ Called(i, "decoder") /\ ResultOf(i).projection = NoValue

IsParquet(path) == Extension(path) = <<"parquet">>

\* the names of the columns the parquet decoder is to return for a file
\* under a projection
ProjectedNames(path, projection) ==
    LET names == ColumnNames(BlobContent(path).columns)
    IN IF projection # NoValue /\ "*" \notin projection[1]
       THEN {name \in names : name \in projection[1]}
       ELSE names

\* C12: the parquet decoder returns exactly the columns of the file that the
\* projection names, each once, and every column of the file when the
\* projection is None or contains "*"; when the first batch of a query comes
\* from a parquet file, columns_read is the number of those columns.
C12_ParquetProjection ==
    /\ \A i \in DOMAIN gen.results :
          Stepped(i) /\ IsParquet(ResultOf(i).path) /\ ResultOf(i).raised = None =>
              LET table == ResultOf(i).table
                  wanted == ProjectedNames(ResultOf(i).path, ResultOf(i).projection)
              IN /\ ColumnNames(table.columns) = wanted
                 /\ Len(table.columns) = Cardinality(wanted)
                 /\ table.num_rows = BlobContent(ResultOf(i).path).num_rows
    /\ emitted # <<>> /\ IsParquet(emitted[1].source) =>
          stats.columns_read =
              Cardinality(ProjectedNames(emitted[1].source,
                                         IF "NO_PUSH_PROJECTION" \in config.hints
                                         THEN NoValue ELSE PlannerSelection))

C12_Witness ==
    /\ pc = "done"
    /\ config.selection = <<"set", {"c3", "c9"}>>
    /\ "NO_PUSH_PROJECTION" \notin config.hints
    /\ Len(emitted) = 1
    /\ emitted[1].source = B1
    /\ stats.columns_read = 1

\* C13: the node uses the default scheme whenever the hint NO_PARTITION is
\* given, whatever PARTITION_SCHEME is configured ("mabel" included), and the
\* Mabel scheme exactly when the hint is absent and the configured scheme is
\* "mabel"; under the default scheme no blob is ignored for its frame.
C13_PartitionSchemeChoice ==
    pc # "init" =>
        /\ "NO_PARTITION" \in config.hints =>
               node._partition_scheme = DefaultPartitionScheme("")
        /\ node._partition_scheme.kind = "mabel" <=>
               ("NO_PARTITION" \notin config.hints /\ config.PARTITION_SCHEME = "mabel")
        /\ node._partition_scheme.kind \in {"default", "mabel"}
        /\ node._partition_scheme.kind = "default" =>
               stats.count_blobs_ignored_frames = 0

C13_Witness ==
    /\ pc = "done"
    /\ "NO_PARTITION" \in config.hints
    /\ config.PARTITION_SCHEME = "mabel"
    /\ node._partition_scheme.kind = "default"
    /\ Len(emitted) = 2
    /\ stats.count_blobs_ignored_frames = 0

\* C14: a Selection operator whose number of producers is not one fails with
\* the invalid-plan error (SqlError in the code) before it pulls a page from a
\* producer, evaluates its filter or emits a batch; with one producer it does
\* not raise that error.
C14_SingleProducerOnly ==
    pc # "ready" =>
        /\ Len(node._producers) # 1 =>
               /\ pc = "error" /\ error = "SqlError"
               /\ gen.pulled = 0 /\ gen.evaluated = 0 /\ emitted = <<>>
        /\ Len(node._producers) = 1 => error # "SqlError"

C14_Witness ==
    /\ pc = "error"
    /\ error = "SqlError"
    /\ Len(node._producers) = 2
    /\ node._filter = Some({1, 2})
    /\ node._producers[1].kind = "node"

\* what is in emitted is the start of what is in pages
IsPrefix(short, long) ==
    /\ Len(short) <= Len(long)
    /\ \A k \in DOMAIN short : short[k] = long[k]

\* C15: a Selection operator without a filter, on one producing operator,
\* emits the batches of the producer's execute(), in order and unchanged,
\* without raising and without calling the evaluator.
C15_NoFilterPassesThrough ==
    /\ node._filter = NoValue
    /\ Len(node._producers) = 1
    /\ node._producers[1].kind = "node"
    /\ pc # "ready"
    => /\ error = None
       /\ gen.evaluated = 0
       /\ IsPrefix(emitted, node._producers[1].pages)
       /\ pc = "done" => emitted = node._producers[1].pages

RECURSIVE RowsOf(_)
RowsOf(pages) == IF pages = <<>> THEN <<>> ELSE Head(pages).rows \o RowsOf(Tail(pages))

C17_InternalDataset ==
    pc # "ready" =>
        IF Lower(node._dataset) \in {Satellites, Planets, Astronauts, NoTable}
        THEN /\ error = None
             /\ Len(emitted) = gen.executes
             /\ stats.rows_read = gen.before.rows_read + Last(emitted).num_rows
             /\ Last(emitted).num_rows = SampleTable(Lower(node._dataset)).num_rows
        ELSE /\ pc = "error" /\ error = "DatabaseError"
             /\ emitted = <<>>
             /\ stats = gen.before

C17_Witness ==
    /\ pc = "done"
    /\ node._dataset = <<"$", "P", "l", "a", "n", "e", "t", "s">>
    /\ gen.executes = 2
    /\ Len(emitted) = 2
    /\ stats.rows_read = 3 + 9 + 9

\* the text of a name after its last ".", the whole name when it has none
AfterLastDot(blob) ==
    LET dots == {i \in DOMAIN blob : blob[i] = "."}
    IN IF dots = {} THEN blob
       ELSE SubSeq(blob, (CHOOSE i \in dots : \A j \in dots : j <= i) + 1, Len(blob))

\* the class of a blob by that text, compared as written
ClassOf(blob) ==
    IF AfterLastDot(blob) \in {<<"parquet">>, <<"jsonl">>, <<"orc">>, <<"arrow">>, <<"zstd">>}
    THEN "DATA"
    ELSE IF AfterLastDot(blob) \in {<<"complete">>, <<"ignore">>} THEN "CONTROL"
    ELSE "UNKNOWN"

\* how many blobs of a class the scan met, over the partitions as listed
MetOfClass(class) ==
    LET OfClass(blob) == ClassOf(blob) = class
        RECURSIVE Met(_)
        Met(partitions) ==
            IF partitions = <<>> THEN 0
            ELSE Count(Framed(Head(partitions)), OfClass) + Met(Tail(partitions))
    IN Met(storage.partitions)

\* C18: every blob that survives the frame filter falls in one class by the
\* text after its last ".", compared case-sensitively: each CONTROL blob adds
\* one to count_control_blobs_found only, each UNKNOWN blob one to
\* count_unknown_blob_type_found only, and only DATA blobs are in the reading
\* list, are made tasks, fetched or decoded.
C18_BlobClasses ==
    pc # "init" =>
        /\ stats.count_control_blobs_found = MetOfClass("CONTROL")
        /\ stats.count_unknown_blob_type_found = MetOfClass("UNKNOWN")
        /\ \A k \in DOMAIN node._reading_list :
              LET entry == node._reading_list[k]
                  IsDataBlob(blob) == ClassOf(blob) = "DATA"
              IN [j \in DOMAIN entry.blob_list |-> entry.blob_list[j][1]]
                     = SelectSeq(Framed(entry.partition), IsDataBlob)
        /\ \A i \in DOMAIN gen.tasks : ClassOf(gen.tasks[i][1]) = "DATA"
        /\ \A k \in DOMAIN emitted : ClassOf(emitted[k].source) = "DATA"

C18_Witness ==
    /\ pc = "done"
    /\ storage.partitions = <<P2>>
    /\ Range(storage.blobs[P2]) = {B1, B4}
    /\ stats.count_unknown_blob_type_found = 1
    /\ stats.count_control_blobs_found = 0
    /\ Len(emitted) = 1
    /\ emitted[1].source = B1

\* C19: with the workers running _read_and_parse concurrently no increment of
\* a counter is lost: once every task of a read with a cache has completed
\* and execute() has returned, cache_hits + cache_misses is the number of
\* tasks executed.
C19_NoIncrementLost ==
    pc = "done" /\ node._cache # None =>
        stats.cache_hits + stats.cache_misses = stats.count_data_blobs_read

\* C20: when metadata.apply fails on a batch after the first, read_errors
\* grows by exactly one, the batch is rebuilt and apply is called once more;
\* when that call succeeds the batch is emitted, when it fails its error
\* leaves execute() and no batch is emitted for the blob.  The first batch is
\* the only one apply is not called on.
C20_ApplyRetriedOnce ==
    LET Retried(batch) == Len(batch.applied) = 2
        failed == IF pc = "error" /\ error = "KeyError" THEN 1 ELSE 0
    IN /\ \A k \in DOMAIN emitted :
             /\ emitted[k].applied \in {<<>>, <<"ok">>, <<"KeyError", "ok">>}
             /\ emitted[k].applied = <<>> <=> k = 1
       /\ stats.read_errors = Count(emitted, Retried) + failed
       /\ Len(emitted) + failed = stats.count_data_blobs_read

C20_Witness ==
    /\ pc = "done"
    /\ Len(emitted) = 2
    /\ emitted[2].applied = <<"KeyError", "ok">>
    /\ stats.read_errors = 1

\* C21: a worker running a task calls read_fn exactly once when the cache is
\* disabled, misses or fails on get, and not at all on a hit, which adds one
\* to cache_hits, calls no cache.set and leaves the cache as it is; a failed
\* read is not tried again nor followed by a decode, and the exception of
\* read_fn or of the decoder is the one that leaves the task and reaches the
\* caller of execute(), the task's result never being consumed.
C21_ReadOnceNoRetry ==
    [][\A i \in DOMAIN gen.results :
          i \in DOMAIN gen'.results =>
              LET r == gen'.results[i].result[1]
                  In(call) == call \in Range(r.calls)
                  IsRead(call) == call \in {"read_fn", "read_fn!"}
                  hit == /\ gen.tasks[i][4] # None
                         /\ In("cache.get")
                         /\ BlobHash(r.path) \in DOMAIN cache_store
              IN /\ gen.results[i].status = "queued" /\ gen'.results[i].status = "done" =>
                       /\ Count(r.calls, IsRead) = IF hit THEN 0 ELSE 1
                       /\ hit => /\ stats'.cache_hits = stats.cache_hits + 1
                                 /\ ~In("cache.set") /\ ~In("cache.set!")
                                 /\ cache_store' = cache_store
                       /\ In("read_fn!") =>
                              /\ r.raised \in ReadOutcomes \ {"ok"}
                              /\ ~In("decoder") /\ ~In("decoder!")
                       /\ In("decoder!") => r.raised \in ParseOutcomes \ {"ok"}
                 /\ gen.results[i].status = "done" /\ gen.results[i].result[1].raised # None =>
                       /\ gen'.results[i].status \in {"done", "raised"}
                       /\ gen'.results[i].status = "raised" =>
                              pc' = "error" /\ error' = gen.results[i].result[1].raised]_vars

C21_Witness ==
    \E i \in DOMAIN gen.results :
        /\ Stepped(i)
        /\ ResultOf(i).calls = <<"cache.get", "decoder">>
        /\ stats.cache_hits = 1
        /\ \E j \in DOMAIN gen.results :
              Stepped(j) /\ Called(j, "read_fn!") /\ gen.results[j].status = "raised"

\* the types that are to be cast, as pyarrow prints them, and what each type
\* is to become
CastTypes ==
    {"date32[day]", "date64[ms]", "timestamp[s]", "timestamp[ms]", "list<item: null>"}

CastOf(type) ==
    IF type = "list<item: null>" THEN "list<item: string>"
    ELSE IF type \in CastTypes THEN "timestamp[us]"
    ELSE type

\* C22: no batch a reader emits has a column of type date32, date64,
\* timestamp[s], timestamp[ms] or list<null>: every column has the name of a
\* column of the blob it was read from and the type that column is cast to.
C22_TypesNormalized ==
    \A k \in DOMAIN emitted :
        \A j \in DOMAIN emitted[k].columns :
            LET column == emitted[k].columns[j]
                read == BlobContent(emitted[k].source).columns
            IN /\ column.type \notin CastTypes
               /\ \E i \in DOMAIN read :
                     read[i].name = column.name /\ column.type = CastOf(read[i].type)

Reversed(s) == [k \in DOMAIN s |-> s[Len(s) + 1 - k]]

\* C23: list_contains_all is true exactly when every item is a member of the
\* array, list_contains_any exactly when some item is (some item has
\* list_contains true); neither depends on the order of the items or on an
\* item being given twice; all three functions answer False for the array None.
C23_ListContains ==
    pc = "done" /\ config.function # "search" =>
        LET array == config.array
            argument == config.argument
            IsMember(item) == \E j \in DOMAIN array[1] : array[1][j] = item
        IN IF array = NoValue THEN emitted[1] = FALSE
           ELSE IF config.function = "list_contains"
           THEN emitted[1] <=> IsMember(argument)
           ELSE IF config.function = "list_contains_all"
           THEN /\ emitted[1] <=> \A k \in DOMAIN argument : IsMember(argument[k])
                /\ emitted[1] = list_contains_all(array, Reversed(argument))
                /\ emitted[1] = list_contains_all(array, argument \o argument)
           ELSE /\ emitted[1] <=> \E k \in DOMAIN argument : IsMember(argument[k])
                /\ emitted[1] <=> \E k \in DOMAIN argument : list_contains(array, argument[k])
                /\ emitted[1] = list_contains_any(array, Reversed(argument))
                /\ emitted[1] = list_contains_any(array, argument \o argument)

C23_Witness ==
    /\ pc = "done"
    /\ config.function = "list_contains_all"
    /\ config.array = Some(<<1, 2>>)
    /\ config.argument = <<2, 3>>
    /\ emitted = <<FALSE>>

\* C30: search returns a one-dimensional vector with exactly one entry per
\* record of the array, whatever the records are and also for an array
\* without records, every entry a boolean for a list or dict column, a None
\* record there giving False.
C30_SearchOneEntryPerRecord ==
    pc = "done" /\ config.function = "search" =>
        LET array == config.array
            result == emitted[1]
        IN /\ result.shape = <<Len(array)>>
           /\ Len(result.values) = Len(array)
           /\ array # <<>> /\ TypeOf(array[1]) \in {"numpy.ndarray", "dict"} =>
                  \A i \in DOMAIN array :
                      /\ result.values[i] \in {Some(TRUE), Some(FALSE)}
                      /\ array[i] = NoneRecord => result.values[i] = Some(FALSE)

\* C24: every batch after the first carries exactly those of its blob's
\* columns that the first emitted batch has: a column of the first batch that
\* the blob has is kept even when a blob in between lacked it, and a column
\* the first batch lacks is dropped.
C24_FirstBatchColumns ==
    \A k \in DOMAIN emitted :
        k > 1 =>
            ColumnNames(emitted[k].columns) =
                ColumnNames(BlobContent(emitted[k].source).columns)
                    \cap ColumnNames(emitted[1].columns)

\* the blobs the adapter lists in a partition that are not directory markers
\* (names ending with "/")
WithoutMarkers(partition) ==
    LET IsMarker(blob) == Len(blob) > 0 /\ blob[Len(blob)] = "/"
        NotMarker(blob) == ~IsMarker(blob)
    IN SelectSeq(storage.blobs[partition], NotMarker)

RECURSIVE CountWithoutMarkers(_)
CountWithoutMarkers(partitions) ==
    IF partitions = <<>> THEN 0
    ELSE Len(WithoutMarkers(Head(partitions))) + CountWithoutMarkers(Tail(partitions))

\* the DATA blobs among them that pass the frame filter
SurvivingData(partition) ==
    LET scheme == NodePartitionScheme(config.hints, config.PARTITION_SCHEME)
    IN SelectSeq(FilterBlobs(scheme, WithoutMarkers(partition)), IsData)

\* C25: after a scan that succeeded the reading list holds exactly the
\* partitions with at least one DATA blob left once the directory markers are
\* removed and the frame filter is applied; every entry has a non-empty blob
\* list of (path, decoder) pairs of DATA blobs only, and count_blobs_found
\* counts no directory marker.
C25_ReadingListOnlyData ==
    pc \notin {"init", "failed"} =>
        LET reading_list == node._reading_list
            listed == storage.partitions
        IN /\ {reading_list[i].partition : i \in DOMAIN reading_list} =
                  {p \in Range(listed) : SurvivingData(p) # <<>>}
           /\ \A i \in DOMAIN reading_list :
                  LET blob_list == reading_list[i].blob_list
                  IN /\ blob_list # <<>>
                     /\ \A j \in DOMAIN blob_list :
                            /\ Len(blob_list[j]) = 2
                            /\ IsData(blob_list[j][1])
                            /\ blob_list[j][2] = KnownExtension(Extension(blob_list[j][1]))[1]
                     /\ blob_list = [j \in DOMAIN SurvivingData(reading_list[i].partition) |->
                                       <<SurvivingData(reading_list[i].partition)[j],
                                         KnownExtension(Extension(
                                             SurvivingData(reading_list[i].partition)[j]))[1]>>]
           /\ stats.count_blobs_found =
                  CountWithoutMarkers(listed)

\* a scan that met a directory marker, a DATA blob and a partition without
\* DATA blobs
C25_Witness ==
    /\ pc = "ready"
    /\ storage.partitions = <<P1, P2>>
    /\ storage.blobs[P1] = <<>>
    /\ storage.blobs[P2] = <<B3, B1>>
    /\ Len(node._reading_list) = 1
    /\ stats.count_blobs_found = 1

\* the DATA blobs of the reading list, over all its partitions
RECURSIVE BlobsToRead(_)
BlobsToRead(reading_list) ==
    IF reading_list = <<>> THEN 0
    ELSE Len(Head(reading_list).blob_list) + BlobsToRead(Tail(reading_list))

\* C26: the estimated row count, made when the first batch is read and kept
\* on every batch after it, is the first batch's number of rows times the
\* number of DATA blobs of the reader's own dataset that survived its scan,
\* also when another reader of the query has counted its blobs in the shared
\* statistics.
C26_EstimateFromOwnBlobs ==
    emitted # <<>> =>
        /\ node._row_count_estimate =
               Some(emitted[1].num_rows * BlobsToRead(node._reading_list))
        /\ \A k \in DOMAIN emitted :
               emitted[k].expected_rows = node._row_count_estimate[1]

\* C27: a reader whose dataset is an embedded subquery plan scans nothing when
\* constructed and, executing, calls neither the adapter nor the cache nor a
\* decoder and changes no counter; it emits one batch per batch of the
\* subquery, in order, each with the column metadata of the first batch,
\* renamed to the alias.
C27_SubqueryPassThrough ==
    /\ [](pc # "init" =>
            LET tables == config.dataset[2]
            IN /\ DOMAIN node = {"_dataset", "_alias"}
               /\ DOMAIN gen = {"metadata", "position"}
               /\ Len(emitted) <= Len(tables)
               /\ \A k \in DOMAIN emitted :
                      emitted[k] = [columns |-> tables[k].columns,
                                    num_rows |-> tables[k].num_rows,
                                    alias |-> config.alias,
                                    metadata_columns |-> tables[1].columns]
               /\ pc = "done" => Len(emitted) = Len(tables))
    /\ [][stats' = stats /\ cache_store' = cache_store /\ storage' = storage]_vars

C27_Witness ==
    /\ pc = "done"
    /\ config.alias = "t"
    /\ Len(emitted) = 2
    /\ emitted[1].columns # emitted[2].columns
    /\ stats.count_blobs_found > 0

\* C28: with one reader on the statistics, whenever execute() is at a yield
\* (or has returned) count_data_blobs_read is the number of batches yielded so
\* far; after an execute() that ran to its end without error the batches
\* yielded are the DATA blobs of the reading list; and while no further batch
\* is pulled the count stays where it is, whatever the workers do.
C28_BlobsReadAreBatches ==
    /\ [](pc \in {"ready", "reading", "done"} =>
              stats.count_data_blobs_read = Len(emitted))
    /\ [](pc = "done" => Len(emitted) = BlobsToRead(node._reading_list))
    /\ [][emitted' = emitted /\ pc' # "error" =>
              stats'.count_data_blobs_read = stats.count_data_blobs_read]_vars

\* the consumer holds two batches and a worker has finished a third blob
\* that is not pulled
C28_Witness ==
    /\ pc = "reading"
    /\ Len(emitted) = 2
    /\ stats.count_data_blobs_read = 2
    /\ \E i \in DOMAIN gen.results : gen.results[i].status = "done"

\* C29: with one reader, partitions_read never exceeds the number of
\* partitions in the reading list, which never exceeds partitions_scanned;
\* once the scanner has returned partitions_scanned and partitions_found are
\* the number of partitions the adapter answered; and no counter of the
\* statistics ever goes down.
C29_CountersOrderedAndMonotonic ==
    /\ [](/\ stats.partitions_read <= Len(node._reading_list)
          /\ Len(node._reading_list) <= stats.partitions_scanned
          /\ pc # "init" =>
                 /\ stats.partitions_scanned = Len(storage.partitions)
                 /\ stats.partitions_found = Len(storage.partitions))
    /\ [][\A counter \in DOMAIN stats : stats'[counter] >= stats[counter]]_vars

====
